---- MODULE Spec2Model ----
(***************************************************************************)
(* State-machine model of the game server (src/unnamed/part_000): the room *)
(* registry, the socket handlers joinRoom / input / boost / disconnect and *)
(* the 30 Hz game loop.                                                    *)
(*                                                                         *)
(* Numbers: positions are integers.  Headings are multiples of a quarter   *)
(* turn, written in degrees, so that Math.cos / Math.sin are -1, 0 or 1   *)
(* and positions stay integral.  Math.hypot(dx, dy) < r is computed as     *)
(* dx*dx + dy*dy < r*r.  A colour `hsl(h, 100%, 50%)` is its hue h.        *)
(* Math.random() is a choice from small sets (SpawnSamples, FoodSeeds,     *)
(* TickRnd); all random draws of one timer firing return the same sample.  *)
(* A player mapping (a JS object, iterated in insertion order) is a        *)
(* sequence of Player records in insertion order.  A room's food array is  *)
(* a bag (multiset) of Food: no handler reads the position of a Food in    *)
(* the array, only which Food it holds and how many.                       *)
(*                                                                         *)
(* The client (src/public/game.js) is modelled for its interpolation: the  *)
(* gameState handler and update().  Its floating-point results are rounded *)
(* to the integer grid, downwards or upwards.                              *)
(***************************************************************************)
EXTENDS Integers, Sequences, FiniteSets, Bags, TLC

VARIABLES
    rooms,      \* the registry: room id -> [players, food, tickCount]
    conn,       \* per socket: "new" (not yet connected), "open", "closed"
    sockRoom,   \* socket.roomId of each socket (NoRoom while undefined)
    joined,     \* the socket.io rooms each socket has joined (socket.join)
    emitted,    \* the messages emitted by the last handler, in order
    lastScan,   \* per room of the last timer firing: players after the
                \* movement loop and the deadPlayers list built from them
    steps,      \* events handled so far (bounds the behaviours explored)
    clientPlayers,  \* game.js `players`: the interpolated state that is drawn
    targetPlayers,  \* game.js `targetPlayers`: the players of the last snapshot
    camera          \* game.js `camera`

serverVars == <<rooms, conn, sockRoom, joined, emitted, lastScan>>

clientVars == <<clientPlayers, targetPlayers, camera>>

vars == <<rooms, conn, sockRoom, joined, emitted, lastScan, steps,
          clientPlayers, targetPlayers, camera>>

---------------------------------------------------------------------------
(* Program constants *)

MAP_SIZE == 2000
INITIAL_LENGTH == 5
SPEED == 5
BOOST_SPEED == 10
INITIAL_SCORE == 100
INITIAL_FOOD == 100
BOOST_MIN_SCORE == 10
BOOST_PERIOD == 5
FOOD_RADIUS == 20
FOOD_SCORE == 10
COLLISION_RADIUS == 10
JITTER_SPAN == 10

HalfMap == MAP_SIZE \div 2

(* Bounds and input sets *)

MaxSteps == 7

Sockets == {"s1", "s2"}
RoomIds == {"1", "2"}
RoomOrder == <<"1", "2">>
NoRoom == "none"
Names == {"Guest"}
Angles == {0, 90, 180, 270}

\* joinRoom's three Math.random() draws: spawn x, spawn y (both in
\* [-250, 250)) and the hue.
SpawnSamples ==
    { [x |-> 0, y |-> 0, hue |-> 0], [x |-> 0, y |-> 10, hue |-> 120] }

FoodNear == [x |-> 25, y |-> 0, color |-> 200]
FoodFar == [x |-> 500, y |-> 500, color |-> 300]

\* n copies of one Food
Copies(f, n) == [g \in (IF n > 0 THEN {f} ELSE {}) |-> n]

\* The outcomes of createRoom's 100 calls of generateFood that are explored:
\* the first k Food at FoodNear, the others at FoodFar.
NearCounts == {0, 2}
FoodSeeds ==
    { Copies(FoodNear, k) (+) Copies(FoodFar, INITIAL_FOOD - k) :
        k \in NearCounts }

\* The random draws of one timer firing: the Food generateFood returns and
\* the residue jitter (Math.random() * 10 - 5, in [-5, 5)).
TickRnd ==
    { [food |-> FoodFar, jx |-> 4, jy |-> -5],
      [food |-> FoodNear, jx |-> -5, jy |-> 0] }

---------------------------------------------------------------------------
(* Helpers *)

Cos(a) == CASE a = 0 -> 1 [] a = 90 -> 0 [] a = 180 -> -1 [] a = 270 -> 0
Sin(a) == CASE a = 0 -> 0 [] a = 90 -> 1 [] a = 180 -> 0 [] a = 270 -> -1

\* Math.hypot(ax - bx, ay - by) < r
Within(ax, ay, bx, by, r) ==
    (ax - bx) * (ax - bx) + (ay - by) * (ay - by) < r * r

\* players[id]: the index of the Player with this id, 0 when absent
Idx(players, id) ==
    IF \E i \in 1..Len(players) : players[i].id = id
    THEN CHOOSE i \in 1..Len(players) : players[i].id = id
    ELSE 0

\* delete players[id]
DeletePlayer(players, id) == SelectSeq(players, LAMBDA p : p.id # id)

PlayerIds(players) == { players[i].id : i \in 1..Len(players) }

---------------------------------------------------------------------------
(* createRoom, generateFood, the socket handlers *)

generateFood(rnd) == rnd.food

createRoom(seed) == [players |-> <<>>, food |-> seed, tickCount |-> 0]

NewPlayer(s, name, sp) ==
    [id |-> s, name |-> name, x |-> sp.x, y |-> sp.y, angle |-> 0,
     length |-> INITIAL_LENGTH,
     body |-> [i \in 1..INITIAL_LENGTH |-> [x |-> sp.x, y |-> sp.y]],
     color |-> sp.hue, score |-> INITIAL_SCORE, isBoosting |-> FALSE]

\* rooms[roomId].players[socket.id] = {...}: an existing key keeps its place
PutPlayer(players, p) ==
    IF Idx(players, p.id) > 0
    THEN [players EXCEPT ![Idx(players, p.id)] = p]
    ELSE Append(players, p)

JoinedRooms(rs, s, roomId, name, sp, seed) ==
    LET room == IF roomId \in DOMAIN rs THEN rs[roomId] ELSE createRoom(seed)
        room2 == [room EXCEPT !.players = PutPlayer(@, NewPlayer(s, name, sp))]
    IN  [r \in DOMAIN rs \cup {roomId} |-> IF r = roomId THEN room2 ELSE rs[r]]

Connect(s) ==
    /\ conn[s] = "new"
    /\ conn' = [conn EXCEPT ![s] = "open"]
    /\ emitted' = <<>>
    /\ lastScan' = <<>>
    /\ UNCHANGED <<rooms, sockRoom, joined>>

JoinRoom(s) ==
    /\ conn[s] = "open"
    /\ \E roomId \in RoomIds, name \in Names, sp \in SpawnSamples,
          seed \in FoodSeeds :
        /\ rooms' = JoinedRooms(rooms, s, roomId, name, sp, seed)
        /\ joined' = [joined EXCEPT ![s] = @ \cup {roomId}]
        /\ sockRoom' = [sockRoom EXCEPT ![s] = roomId]
        /\ emitted' = << [event |-> "roomJoined", to |-> s,
                          roomId |-> roomId, mapSize |-> MAP_SIZE] >>
    /\ lastScan' = <<>>
    /\ UNCHANGED conn

\* roomId && rooms[roomId] && rooms[roomId].players[socket.id]
HasPlayer(rs, roomId, s) ==
    /\ roomId # NoRoom
    /\ roomId \in DOMAIN rs
    /\ Idx(rs[roomId].players, s) > 0

\* Variant: the heading is written to the connection's Player in every room
SetAngleAnyRoom(rs, roomId, s, angle) ==
    [r \in DOMAIN rs |->
        [rs[r] EXCEPT !.players =
            [i \in 1..Len(rs[r].players) |->
                IF rs[r].players[i].id = s
                THEN [rs[r].players[i] EXCEPT !.angle = angle]
                ELSE rs[r].players[i]]]]

SetAngle(rs, roomId, s, angle) ==
    IF HasPlayer(rs, roomId, s)
    THEN [rs EXCEPT ![roomId].players[Idx(rs[roomId].players, s)].angle = angle]
    ELSE rs

SetBoost(rs, roomId, s, b) ==
    IF HasPlayer(rs, roomId, s)
    THEN [rs EXCEPT ![roomId].players[Idx(rs[roomId].players, s)].isBoosting = b]
    ELSE rs

Input(s) ==
    /\ conn[s] = "open"
    /\ \E angle \in Angles : rooms' = SetAngle(rooms, sockRoom[s], s, angle)
    /\ emitted' = <<>>
    /\ lastScan' = <<>>
    /\ UNCHANGED <<conn, sockRoom, joined>>

Boost(s) ==
    /\ conn[s] = "open"
    /\ \E b \in BOOLEAN : rooms' = SetBoost(rooms, sockRoom[s], s, b)
    /\ emitted' = <<>>
    /\ lastScan' = <<>>
    /\ UNCHANGED <<conn, sockRoom, joined>>

LeftRooms(rs, roomId, s) ==
    IF roomId # NoRoom /\ roomId \in DOMAIN rs
    THEN LET left == DeletePlayer(rs[roomId].players, s)
         IN  IF Len(left) = 0
             THEN [r \in DOMAIN rs \ {roomId} |-> rs[r]]
             ELSE [rs EXCEPT ![roomId].players = left]
    ELSE rs

Disconnect(s) ==
    /\ conn[s] = "open"
    /\ rooms' = LeftRooms(rooms, sockRoom[s], s)
    /\ conn' = [conn EXCEPT ![s] = "closed"]
    /\ joined' = [joined EXCEPT ![s] = {}]
    /\ emitted' = <<>>
    /\ lastScan' = <<>>
    /\ UNCHANGED sockRoom

---------------------------------------------------------------------------
(* The game loop *)

\* Variant: the threshold test lets a score of exactly 10 boost
BoostActiveAtFloor(player) ==
    player.isBoosting /\ player.score >= BOOST_MIN_SCORE

BoostActive(player) == player.isBoosting /\ player.score > BOOST_MIN_SCORE

\* Variant: the charge falls due in every tick
ChargeDueEachTick(tickCount) == tickCount % 1 = 0

ChargeDue(tickCount) == tickCount % BOOST_PERIOD = 0

ChargedScore(score) == score - 1

\* Variant: the flag is never cleared
BoostFlagKept(player) == player.isBoosting

\* the flag after the boost block: kept while boosting, cleared otherwise
BoostFlagAfter(player) == IF BoostActive(player) THEN player.isBoosting ELSE FALSE

Residue(player, rnd) ==
    LET tail == player.body[Len(player.body)]
    IN  [x |-> tail.x + rnd.jx, y |-> tail.y + rnd.jy, color |-> player.color]

\* Variant: the upper boundary checks are missing
ClampLowOnly(v) == IF v < -HalfMap THEN -HalfMap ELSE v

Clamp(v) ==
    IF v < -HalfMap THEN -HalfMap ELSE IF v > HalfMap THEN HalfMap ELSE v

\* Variant: the body is never trimmed
UpdateBodyNoTrim(body, x, y, length) == <<[x |-> x, y |-> y]>> \o body

\* unshift the new head, pop while longer than the target length
UpdateBody(body, x, y, length) ==
    LET grown == <<[x |-> x, y |-> y]>> \o body
    IN  IF Len(grown) > length THEN SubSeq(grown, 1, length) ELSE grown

\* Variant: at most one Food is consumed per player and tick
EatFoodSingle(player, food, rnd) ==
    LET near == { f \in BagToSet(food) :
                    Within(player.x, player.y, f.x, f.y, FOOD_RADIUS) }
        eaten == IF near = {} THEN EmptyBag
                 ELSE Copies(CHOOSE f \in near : TRUE, 1)
        n == BagCardinality(eaten)
    IN  [player |-> [player EXCEPT !.length = @ + n,
                                   !.score = @ + FOOD_SCORE * n],
         food |-> (food (-) eaten) (+) Copies(generateFood(rnd), n)]

\* Variant: a consumed Food is not replaced
EatFoodNoRespawn(player, food, rnd) ==
    LET near == { f \in BagToSet(food) :
                    Within(player.x, player.y, f.x, f.y, FOOD_RADIUS) }
        eaten == [f \in near |-> food[f]]
        n == BagCardinality(eaten)
    IN  [player |-> [player EXCEPT !.length = @ + n,
                                   !.score = @ + FOOD_SCORE * n],
         food |-> food (-) eaten]

\* The food loop of one player: it visits every Food the array held when
\* the loop began exactly once (i runs down from the last index, a
\* replacement is pushed behind i), the head standing still, so the Food
\* in reach are consumed and as many replacements are pushed.
EatFood(player, food, rnd) ==
    LET near == { f \in BagToSet(food) :
                    Within(player.x, player.y, f.x, f.y, FOOD_RADIUS) }
        eaten == [f \in near |-> food[f]]
        n == BagCardinality(eaten)
    IN  [player |-> [player EXCEPT !.length = @ + n,
                                   !.score = @ + FOOD_SCORE * n],
         food |-> (food (-) eaten) (+) Copies(generateFood(rnd), n)]

MovePlayer(room, i, rnd) ==
    LET player == room.players[i]
        boosting == BoostActive(player)
        charge == boosting /\ ChargeDue(room.tickCount)
        currentSpeed == IF boosting THEN BOOST_SPEED ELSE SPEED
        food1 == IF charge /\ Len(player.body) > 0
                 THEN room.food (+) Copies(Residue(player, rnd), 1)
                 ELSE room.food
        x1 == Clamp(player.x + Cos(player.angle) * currentSpeed)
        y1 == Clamp(player.y + Sin(player.angle) * currentSpeed)
        moved == [player EXCEPT
                    !.score = IF charge THEN ChargedScore(@) ELSE @,
                    !.isBoosting = BoostFlagAfter(player),
                    !.x = x1, !.y = y1,
                    !.body = UpdateBody(@, x1, y1, player.length)]
        ate == EatFood(moved, food1, rnd)
    IN  [room EXCEPT !.players[i] = ate.player, !.food = ate.food]

\* Variant: every player is moved before any player's food loop runs
MoveOnly(room, i, rnd) ==
    LET player == room.players[i]
        boosting == BoostActive(player)
        charge == boosting /\ ChargeDue(room.tickCount)
        currentSpeed == IF boosting THEN BOOST_SPEED ELSE SPEED
        food1 == IF charge /\ Len(player.body) > 0
                 THEN room.food (+) Copies(Residue(player, rnd), 1)
                 ELSE room.food
        x1 == Clamp(player.x + Cos(player.angle) * currentSpeed)
        y1 == Clamp(player.y + Sin(player.angle) * currentSpeed)
        moved == [player EXCEPT
                    !.score = IF charge THEN ChargedScore(@) ELSE @,
                    !.isBoosting = BoostFlagAfter(player),
                    !.x = x1, !.y = y1,
                    !.body = UpdateBody(@, x1, y1, player.length)]
    IN  [room EXCEPT !.players[i] = moved, !.food = food1]

RECURSIVE MoveAll(_, _, _)
MoveAll(room, i, rnd) ==
    IF i > Len(room.players) THEN room
    ELSE MoveAll(MoveOnly(room, i, rnd), i + 1, rnd)

RECURSIVE EatAll(_, _, _)
EatAll(room, i, rnd) ==
    IF i > Len(room.players) THEN room
    ELSE LET ate == EatFood(room.players[i], room.food, rnd)
         IN  EatAll([room EXCEPT !.players[i] = ate.player, !.food = ate.food],
                    i + 1, rnd)

MovePlayersPhased(room, i, rnd) == EatAll(MoveAll(room, i, rnd), i, rnd)

RECURSIVE MovePlayers(_, _, _)
MovePlayers(room, i, rnd) ==
    IF i > Len(room.players) THEN room
    ELSE MovePlayers(MovePlayer(room, i, rnd), i + 1, rnd)

HitsBody(player, other) ==
    \E k \in 1..Len(other.body) :
        Within(player.x, player.y, other.body[k].x, other.body[k].y,
               COLLISION_RADIUS)

\* Variant: a player found dead is deleted at once, so the players scanned
\* after it no longer see its body
RECURSIVE DetectDeadEager(_, _)
DetectDeadEager(players, i) ==
    IF i > Len(players) THEN <<>>
    ELSE LET dead == \E j \in 1..Len(players) :
                        j # i /\ HitsBody(players[i], players[j])
         IN  IF dead
             THEN <<players[i].id>>
                    \o DetectDeadEager(DeletePlayer(players, players[i].id), i)
             ELSE DetectDeadEager(players, i + 1)

RECURSIVE DetectDead(_, _)
DetectDead(players, i) ==
    IF i > Len(players) THEN <<>>
    ELSE LET dead == \E j \in 1..Len(players) :
                        j # i /\ HitsBody(players[i], players[j])
         IN  (IF dead THEN <<players[i].id>> ELSE <<>>)
                 \o DetectDead(players, i + 1)

\* Variant: every segment becomes Food
RECURSIVE DeathFoodAll(_, _)
DeathFoodAll(p, k) ==
    IF k > Len(p.body) THEN EmptyBag
    ELSE Copies([x |-> p.body[k].x, y |-> p.body[k].y, color |-> p.color], 1)
            (+) DeathFoodAll(p, k + 1)

\* the Food of every segment whose index is even (index 0 is the head)
RECURSIVE DeathFood(_, _)
DeathFood(p, k) ==
    IF k > Len(p.body) THEN EmptyBag
    ELSE (IF (k - 1) % 2 = 0
          THEN Copies([x |-> p.body[k].x, y |-> p.body[k].y,
                       color |-> p.color], 1)
          ELSE EmptyBag) (+) DeathFood(p, k + 1)

\* Variant: the dead player is notified but stays in the room
RECURSIVE ResolveDeathsKeep(_, _, _)
ResolveDeathsKeep(room, dead, k) ==
    IF k > Len(dead) THEN [room |-> room, out |-> <<>>]
    ELSE LET p == room.players[Idx(room.players, dead[k])]
             room2 == [room EXCEPT !.food = @ (+) DeathFood(p, 1)]
             rest == ResolveDeathsKeep(room2, dead, k + 1)
         IN  [room |-> rest.room,
              out |-> <<[event |-> "dead", to |-> dead[k]]>> \o rest.out]

RECURSIVE ResolveDeaths(_, _, _)
ResolveDeaths(room, dead, k) ==
    IF k > Len(dead) THEN [room |-> room, out |-> <<>>]
    ELSE LET p == room.players[Idx(room.players, dead[k])]
             room2 == [room EXCEPT
                          !.food = @ (+) DeathFood(p, 1),
                          !.players = DeletePlayer(@, dead[k])]
             rest == ResolveDeaths(room2, dead, k + 1)
         IN  [room |-> rest.room,
              out |-> <<[event |-> "dead", to |-> dead[k]]>> \o rest.out]

GameState(roomId, room) ==
    [event |-> "gameState", to |-> roomId,
     players |-> room.players, food |-> room.food]

\* Variant: the snapshot is taken before the deaths are resolved
TickRoomEarlyState(roomId, room, rnd) ==
    LET ticked == [room EXCEPT !.tickCount = @ + 1]
        moved == MovePlayers(ticked, 1, rnd)
        dead == DetectDead(moved.players, 1)
        res == ResolveDeaths(moved, dead, 1)
    IN  [room |-> res.room,
         scan |-> [before |-> moved.players, dead |-> dead],
         out |-> res.out \o <<GameState(roomId, moved)>>]

TickRoom(roomId, room, rnd) ==
    LET ticked == [room EXCEPT !.tickCount = @ + 1]
        moved == MovePlayers(ticked, 1, rnd)
        dead == DetectDead(moved.players, 1)
        res == ResolveDeaths(moved, dead, 1)
    IN  [room |-> res.room,
         scan |-> [before |-> moved.players, dead |-> dead],
         out |-> res.out \o <<GameState(roomId, res.room)>>]

RECURSIVE EmitAll(_, _)
EmitAll(res, k) ==
    IF k > Len(RoomOrder) THEN <<>>
    ELSE (IF RoomOrder[k] \in DOMAIN res THEN res[RoomOrder[k]].out ELSE <<>>)
            \o EmitAll(res, k + 1)

Tick ==
    /\ \E rnd \in TickRnd :
        LET res == [r \in DOMAIN rooms |-> TickRoom(r, rooms[r], rnd)]
        IN  /\ rooms' = [r \in DOMAIN rooms |-> res[r].room]
            /\ lastScan' = [r \in DOMAIN rooms |-> res[r].scan]
            /\ emitted' = EmitAll(res, 1)
    /\ UNCHANGED <<conn, sockRoom, joined>>

---------------------------------------------------------------------------
(* The server from its start *)

\* game.js lines 13-17: nothing received, nothing drawn yet
InitClient ==
    /\ clientPlayers = <<>>
    /\ targetPlayers = <<>>
    /\ camera = [x |-> 0, y |-> 0]

Init ==
    /\ InitClient
    /\ rooms = <<>>
    /\ conn = [s \in Sockets |-> "new"]
    /\ sockRoom = [s \in Sockets |-> NoRoom]
    /\ joined = [s \in Sockets |-> {}]
    /\ emitted = <<>>
    /\ lastScan = <<>>
    /\ steps = 0

Event ==
    \/ \E s \in Sockets : Connect(s)
    \/ \E s \in Sockets : JoinRoom(s)
    \/ \E s \in Sockets : Input(s)
    \/ \E s \in Sockets : Boost(s)
    \/ \E s \in Sockets : Disconnect(s)
    \/ Tick

Next ==
    /\ steps < MaxSteps
    /\ steps' = steps + 1
    /\ Event
    /\ UNCHANGED clientVars

Spec == Init /\ [][Next]_vars

---------------------------------------------------------------------------
(* The server late in a game.  The start is the state the handlers above   *)
(* reach when socket s1 joins room "1", asks for boost and then, for       *)
(* ScriptTicks timer firings, steers along ScriptAngle (a spiral that      *)
(* stays inside the arena, crosses no Food and ends next to a corner),     *)
(* each firing drawing ScriptRnd.  Turned = 180 is the same run with every *)
(* heading reversed.                                                       *)

ScriptTicks == 30 + 96 + 128 + 195
ScriptSpawn == [x |-> 0, y |-> 10, hue |-> 120]
ScriptSeed == Copies(FoodFar, INITIAL_FOOD)
ScriptRnd == [food |-> FoodFar, jx |-> 4, jy |-> -5]
Turns == {0, 180}

ScriptAngle(t, turned) ==
    LET a == IF t <= 30 THEN 270
             ELSE IF t <= 126 THEN 180
             ELSE IF t <= 254 THEN 90
             ELSE 0
    IN  (a + turned) % 360

ScriptStart ==
    SetBoost(JoinedRooms(<<>>, "s1", "1", "Guest", ScriptSpawn, ScriptSeed),
             "1", "s1", TRUE)

\* the registry after input(ScriptAngle(t)) and one timer firing
ScriptTick(rs, t, turned) ==
    LET steered == SetAngle(rs, "1", "s1", ScriptAngle(t, turned))
    IN  "1" :> TickRoom("1", steered["1"], ScriptRnd).room

\* the registry after the firings from..to, in order
RECURSIVE ScriptRun(_, _, _, _)
ScriptRun(rs, from, to, turned) ==
    IF from > to THEN rs
    ELSE IF from = to THEN ScriptTick(rs, from, turned)
    ELSE LET mid == (from + to) \div 2
             half == ScriptRun(rs, from, mid, turned)
         IN  IF half = <<>> THEN half
             ELSE ScriptRun(half, mid + 1, to, turned)

ScriptRooms(n, turned) == ScriptRun(ScriptStart, 1, n, turned)

InitLate ==
    /\ InitClient
    /\ \E turned \in Turns : rooms = ScriptRooms(ScriptTicks, turned)
    /\ conn = [s \in Sockets |-> IF s = "s1" THEN "open" ELSE "new"]
    /\ sockRoom = [s \in Sockets |-> IF s = "s1" THEN "1" ELSE NoRoom]
    /\ joined = [s \in Sockets |-> IF s = "s1" THEN {"1"} ELSE {}]
    /\ emitted = <<>>
    /\ lastScan = <<>>
    /\ steps = 0

\* no connection is opened and no room joined late in the game
EventLate ==
    \/ \E s \in Sockets : Input(s)
    \/ \E s \in Sockets : Boost(s)
    \/ \E s \in Sockets : Disconnect(s)
    \/ Tick

NextLate ==
    /\ steps < MaxSteps
    /\ steps' = steps + 1
    /\ EventLate
    /\ UNCHANGED clientVars

SpecLate == InitLate /\ [][NextLate]_vars

---------------------------------------------------------------------------
(* Two players in one room.  The start is the state the handlers reach     *)
(* when s1 and then s2 join room "1" ten units apart, s2 asks for boost,   *)
(* and DuoTicks timer firings follow in which s2 runs east while s1 steps  *)
(* east and west in turn; s1 has then sent the heading for the next        *)
(* firing, in which s2's boost charge falls due.                           *)

DuoTicks == BOOST_PERIOD - 1

DuoAngle(t) == IF t % 2 = 1 THEN 0 ELSE 180

DuoStart ==
    LET one == JoinedRooms(<<>>, "s1", "1", "Guest",
                           [x |-> 0, y |-> 0, hue |-> 0], ScriptSeed)
        two == JoinedRooms(one, "s2", "1", "Guest",
                           [x |-> 0, y |-> 10, hue |-> 120], ScriptSeed)
    IN  SetBoost(two, "1", "s2", TRUE)

\* the registry after input(DuoAngle(t)) of s1 and the firings 1..t
RECURSIVE DuoRun(_)
DuoRun(t) ==
    IF t = 0 THEN DuoStart
    ELSE LET steered == SetAngle(DuoRun(t - 1), "1", "s1", DuoAngle(t))
         IN  "1" :> TickRoom("1", steered["1"], ScriptRnd).room

InitDuo ==
    /\ InitClient
    /\ rooms = SetAngle(DuoRun(DuoTicks), "1", "s1", DuoAngle(DuoTicks + 1))
    /\ conn = [s \in Sockets |-> "open"]
    /\ sockRoom = [s \in Sockets |-> "1"]
    /\ joined = [s \in Sockets |-> {"1"}]
    /\ emitted = <<>>
    /\ lastScan = <<>>
    /\ steps = 0

NextDuo ==
    /\ steps < MaxSteps
    /\ steps' = steps + 1
    /\ EventLate
    /\ UNCHANGED clientVars

SpecDuo == InitDuo /\ [][NextDuo]_vars

---------------------------------------------------------------------------
(* One boosting player.  The start is a state the handlers reach when s1   *)
(* joins room "1", asks for boost and runs east: either just before the    *)
(* first boost charge falls due, or after it has reached the east boundary *)
(* (BoostReach firings), turned along it and run on, just before a charge  *)
(* falls due.  From there the player boosts or not and the timer fires;    *)
(* the heading stays as it is.                                             *)

BoostReach == HalfMap \div BOOST_SPEED

BoostStarts == {BOOST_PERIOD - 1, BoostReach + BOOST_PERIOD - 1}

BoostAngle(t) == IF t <= BoostReach THEN 0 ELSE 90

\* the registry after input(BoostAngle(t)) and one timer firing
BoostTick(rs, t) ==
    LET steered == SetAngle(rs, "1", "s1", BoostAngle(t))
    IN  "1" :> TickRoom("1", steered["1"], ScriptRnd).room

\* the registry after the firings from..to, in order
RECURSIVE BoostRun(_, _, _)
BoostRun(rs, from, to) ==
    IF from > to THEN rs
    ELSE IF from = to THEN BoostTick(rs, from)
    ELSE LET mid == (from + to) \div 2
             half == BoostRun(rs, from, mid)
         IN  IF half = <<>> THEN half
             ELSE BoostRun(half, mid + 1, to)

InitBoost ==
    /\ InitClient
    /\ \E n \in BoostStarts : rooms = BoostRun(ScriptStart, 1, n)
    /\ conn = [s \in Sockets |-> IF s = "s1" THEN "open" ELSE "new"]
    /\ sockRoom = [s \in Sockets |-> IF s = "s1" THEN "1" ELSE NoRoom]
    /\ joined = [s \in Sockets |-> IF s = "s1" THEN {"1"} ELSE {}]
    /\ emitted = <<>>
    /\ lastScan = <<>>
    /\ steps = 0

EventBoost ==
    \/ \E s \in Sockets : Boost(s)
    \/ Tick

NextBoost ==
    /\ steps < MaxSteps
    /\ steps' = steps + 1
    /\ EventBoost
    /\ UNCHANGED clientVars

SpecBoost == InitBoost /\ [][NextBoost]_vars

---------------------------------------------------------------------------
(* The client's interpolation (src/public/game.js).  The client is in a    *)
(* game as MyId.  A snapshot's player map is a function from ids to Player *)
(* records, as JSON delivers it; the snapshots that arrive are drawn from  *)
(* ClientSnapshots.  The Food list of a snapshot is only drawn.            *)

MyId == "s1"

SnapPlayer(s, x, y, angle) ==
    [NewPlayer(s, "Guest", [x |-> x, y |-> y, hue |-> 0]) EXCEPT !.angle = angle]

ClientSnapshots ==
    { <<>>,
      "s1" :> SnapPlayer("s1", 0, 0, 0),
      "s1" :> SnapPlayer("s1", 40, -13, 0),
      "s1" :> SnapPlayer("s1", 7, -5, 90),
      ("s1" :> SnapPlayer("s1", 40, -13, 0)) @@ ("s2" :> SnapPlayer("s2", 7, 0, 180)) }

\* d * 0.1 on the integer grid, rounded down or up
Tenth(d, up) ==
    IF d % 10 = 0 THEN d \div 10 ELSE (d \div 10) + (IF up THEN 1 ELSE 0)

\* Variant: the step is one unit too long
LerpDrift(px, tx, up) == px + Tenth(tx - px, up) + 1

\* p.x += (t.x - p.x) * lerpFactor
Lerp(px, tx, up) == px + Tenth(tx - px, up)

\* socket.on('gameState')
OnGameState ==
    /\ \E state \in ClientSnapshots :
        /\ targetPlayers' = state
        /\ clientPlayers' = IF DOMAIN clientPlayers = {} THEN state
                            ELSE clientPlayers
    /\ UNCHANGED camera

\* update(): one animation frame
Update ==
    \E upx, upy \in BOOLEAN :
        LET drawn == [id \in DOMAIN targetPlayers |->
                        IF id \notin DOMAIN clientPlayers
                        THEN targetPlayers[id]
                        ELSE LET t == targetPlayers[id]
                             IN  [clientPlayers[id] EXCEPT
                                    !.x = Lerp(@, t.x, upx),
                                    !.y = Lerp(@, t.y, upy),
                                    !.angle = t.angle,
                                    !.score = t.score,
                                    !.name = t.name,
                                    !.color = t.color,
                                    !.body = t.body]]
        IN  /\ clientPlayers' = drawn
            /\ camera' = IF MyId \in DOMAIN drawn
                         THEN [x |-> drawn[MyId].x, y |-> drawn[MyId].y]
                         ELSE camera
            /\ UNCHANGED targetPlayers

EventClient ==
    \/ OnGameState
    \/ Update

NextClient ==
    /\ steps < MaxSteps
    /\ steps' = steps + 1
    /\ EventClient
    /\ UNCHANGED serverVars

SpecClient == Init /\ [][NextClient]_vars

---------------------------------------------------------------------------
(* Properties *)

\* room r was stepped by the timer in this step
TickedRoom(r) ==
    /\ r \in DOMAIN rooms
    /\ r \in DOMAIN rooms'
    /\ rooms'[r].tickCount = rooms[r].tickCount + 1

Range(seq) == { seq[i] : i \in 1..Len(seq) }

\* C1 (as stated): in every state between events a room is in the registry
\* if and only if its player mapping is non-empty.  (A player mapping exists
\* only inside a registered room, so the claim is that no registered room
\* has an empty mapping.)
C1_RoomIffPlayers ==
    \A r \in DOMAIN rooms : Len(rooms[r].players) > 0

\* C2 (as stated): at the end of a tick in which a boosting player's score
\* becomes <= 10 the player's boosting flag is false.
C2_BoostOffSameTick ==
    [][\A r \in DOMAIN rooms : TickedRoom(r) =>
        \A i \in 1..Len(rooms[r].players), j \in 1..Len(rooms'[r].players) :
            LET p == rooms[r].players[i]
                q == rooms'[r].players[j]
            IN  (p.id = q.id /\ p.isBoosting /\ p.score > BOOST_MIN_SCORE
                    /\ q.score <= BOOST_MIN_SCORE)
                => ~q.isBoosting]_vars

\* the gameState messages for room r among the messages just emitted
Snapshots(r) ==
    { emitted[k] : k \in { n \in 1..Len(emitted) :
                            emitted[n].event = "gameState" /\ emitted[n].to = r } }

\* C2 (amended): at the end of every tick at whose start a player's score is
\* <= 10, that player's boosting flag is false, in the room and in the
\* tick's gameState snapshot; the tick whose charge takes the score to 10
\* leaves the flag set.
C2_BoostOffNextTick ==
    [][\A r \in DOMAIN rooms : TickedRoom(r) =>
        \A i \in 1..Len(rooms[r].players), j \in 1..Len(rooms'[r].players) :
            LET p == rooms[r].players[i]
                q == rooms'[r].players[j]
            IN  /\ (p.id = q.id /\ p.score <= BOOST_MIN_SCORE) =>
                    /\ ~q.isBoosting
                    /\ \A m \in Snapshots(r)' : ~m.players[j].isBoosting
                /\ (p.id = q.id /\ p.isBoosting /\ p.score > BOOST_MIN_SCORE) =>
                    q.isBoosting]_vars

\* the flag of a player that kept boosting down to score 10 has been cleared
\* by the second of two timer firings
C2_Witness ==
    /\ steps = 2
    /\ lastScan # <<>>
    /\ \E r \in DOMAIN rooms : \E i \in 1..Len(rooms[r].players) :
        /\ rooms[r].tickCount = ScriptTicks + 2
        /\ rooms[r].players[i].score = BOOST_MIN_SCORE
        /\ ~rooms[r].players[i].isBoosting
        /\ \A m \in Snapshots(r) : ~m.players[i].isBoosting

\* the players (by index) of a scan whose head is within the collision
\* radius of a body segment of another player of the scan
Colliding(before) ==
    { i \in 1..Len(before) :
        \E j \in 1..Len(before) : \E k \in 1..Len(before[j].body) :
            /\ j # i
            /\ (before[i].x - before[j].body[k].x) * (before[i].x - before[j].body[k].x)
                 + (before[i].y - before[j].body[k].y) * (before[i].y - before[j].body[k].y)
               < COLLISION_RADIUS * COLLISION_RADIUS }

\* C3: in a tick of a room a player is marked dead exactly when its head is
\* within 10 units of a body segment of another player, all players taken as
\* they stand after the movement loop and before any death is resolved; no
\* player is marked twice, and two players that hit each other both die.
C3_DeadIffCollision ==
    \A r \in DOMAIN lastScan :
        LET before == lastScan[r].before
            dead == lastScan[r].dead
        IN  /\ Range(dead) = { before[i].id : i \in Colliding(before) }
            /\ \A a, b \in 1..Len(dead) : dead[a] = dead[b] => a = b
            /\ \A i, j \in Colliding(before) :
                    {before[i].id, before[j].id} \subseteq Range(dead)

\* two players whose heads are within 10 units of each other's body were
\* both marked dead in the same tick
C3_Witness ==
    \E r \in DOMAIN lastScan :
        /\ Len(lastScan[r].before) = 2
        /\ Colliding(lastScan[r].before) = {1, 2}
        /\ Len(lastScan[r].dead) = 2

\* the messages one room's step emits, given its scan and its state after
\* the step: a 'dead' to each player marked dead, then the snapshot of the
\* players that were not marked
Survivors(r) ==
    SelectSeq(lastScan[r].before, LAMBDA p : p.id \notin Range(lastScan[r].dead))

ExpectedOut(r) ==
    [k \in 1..Len(lastScan[r].dead) |->
        [event |-> "dead", to |-> lastScan[r].dead[k]]]
    \o << [event |-> "gameState", to |-> r,
            players |-> Survivors(r), food |-> rooms[r].food] >>

RECURSIVE ExpectedFrom(_)
ExpectedFrom(k) ==
    IF k > Len(RoomOrder) THEN <<>>
    ELSE (IF RoomOrder[k] \in DOMAIN lastScan
          THEN ExpectedOut(RoomOrder[k]) ELSE <<>>) \o ExpectedFrom(k + 1)

\* C4: in a tick, for each room, one 'dead' is emitted to each player marked
\* dead (and to no one else), followed by the room's gameState; the players
\* marked dead are out of the room's mapping and out of that snapshot, the
\* others are all in both.
C4_DeadThenSnapshot ==
    lastScan # <<>> =>
        /\ DOMAIN lastScan = DOMAIN rooms
        /\ emitted = ExpectedFrom(1)
        /\ \A r \in DOMAIN lastScan :
            /\ \A a, b \in 1..Len(lastScan[r].dead) :
                    lastScan[r].dead[a] = lastScan[r].dead[b] => a = b
            /\ rooms[r].players = Survivors(r)
            /\ PlayerIds(rooms[r].players) \cap Range(lastScan[r].dead) = {}

\* a tick in which one of two players died and the other stayed
C4_Witness ==
    \E r \in DOMAIN lastScan :
        /\ Len(lastScan[r].before) = 2
        /\ Len(lastScan[r].dead) = 1
        /\ Len(rooms[r].players) = 1
        /\ \E k \in 1..Len(emitted) :
                emitted[k] = [event |-> "dead", to |-> lastScan[r].dead[1]]

\* C5 (as stated): once a connection's disconnect has been handled, no room
\* of the registry holds a Player with that connection's id.
C5_NoPlayerAfterDisconnect ==
    \A s \in Sockets : conn[s] = "closed" =>
        \A r \in DOMAIN rooms : s \notin PlayerIds(rooms[r].players)

Min(a, b) == IF a < b THEN a ELSE b

\* every Player record of the registry
AllPlayers == UNION { Range(rooms[r].players) : r \in DOMAIN rooms }

\* C6: a player's body never has more segments than its target length, and
\* each tick of its room in which it does not grow adds one segment until
\* the body has as many segments as the target length, and keeps it there.
C6_BodyLength ==
    /\ [](\A p \in AllPlayers : Len(p.body) <= p.length)
    /\ [][\A r \in DOMAIN rooms : TickedRoom(r) =>
            \A i \in 1..Len(rooms[r].players), j \in 1..Len(rooms'[r].players) :
                LET p == rooms[r].players[i]
                    q == rooms'[r].players[j]
                IN  (p.id = q.id /\ q.length = p.length) =>
                        Len(q.body) = Min(Len(p.body) + 1, p.length)]_vars

\* a player that grew by two and whose body has caught up with the target
C6_Witness ==
    \E p \in AllPlayers :
        p.length = INITIAL_LENGTH + 2 /\ Len(p.body) = p.length

InArena(v) == -HalfMap <= v /\ v <= HalfMap

\* C7: every player's position is inside the arena in every state (at spawn
\* and after every tick's clamping), and a player whose head touches no
\* other player's body stays in its room, standing at the boundary or not.
C7_InsideArena ==
    /\ \A p \in AllPlayers : InArena(p.x) /\ InArena(p.y)
    /\ \A r \in DOMAIN lastScan :
        LET before == lastScan[r].before
        IN  \A i \in 1..Len(before) :
                /\ InArena(before[i].x) /\ InArena(before[i].y)
                /\ i \notin Colliding(before) =>
                        before[i].id \in PlayerIds(rooms[r].players)

\* a player heading east that a tick has held at the east boundary
C7_Witness ==
    /\ lastScan # <<>>
    /\ \E p \in AllPlayers :
        /\ p.angle = 0
        /\ p.x = HalfMap
        /\ p.body[1].x = HalfMap
        /\ p.body[2].x = HalfMap

\* a Player as joinRoom creates it
FreshlySpawned(q) ==
    /\ q.score = INITIAL_SCORE
    /\ q.length = INITIAL_LENGTH
    /\ q.angle = 0
    /\ ~q.isBoosting
    /\ Len(q.body) = INITIAL_LENGTH
    /\ \A k \in 1..Len(q.body) : q.body[k] = [x |-> q.x, y |-> q.y]

\* C8: a score is an integer that is never below 10, and it goes down only
\* by the boost charge: by exactly 1, in a tick of the player's room, from a
\* score above 10 of a boosting player.  (joinRoom for a connection already
\* in the room replaces its Player by a new one with the initial score.)
C8_ScoreFloor ==
    /\ [](\A p \in AllPlayers : p.score \in Nat /\ p.score >= BOOST_MIN_SCORE)
    /\ [][\A r \in DOMAIN rooms \cap DOMAIN rooms' :
            \A i \in 1..Len(rooms[r].players), j \in 1..Len(rooms'[r].players) :
                LET p == rooms[r].players[i]
                    q == rooms'[r].players[j]
                IN  (p.id = q.id /\ q.score < p.score) =>
                        \/ /\ TickedRoom(r)
                           /\ p.isBoosting
                           /\ p.score > BOOST_MIN_SCORE
                           /\ q.score = p.score - 1
                        \/ /\ ~TickedRoom(r)
                           /\ FreshlySpawned(q)]_vars

\* a player the boost charge has taken down to a score of 10
C8_Witness ==
    /\ lastScan # <<>>
    /\ \E p \in AllPlayers : p.score = BOOST_MIN_SCORE /\ p.isBoosting

\* C9: a room never holds fewer than the 100 Food it was seeded with, the
\* number of its Food never goes down in a step (a consumed Food is replaced
\* in the same tick), and a step that is not a tick of the room leaves its
\* Food as it is.
C9_FoodKept ==
    /\ [](\A r \in DOMAIN rooms : BagCardinality(rooms[r].food) >= INITIAL_FOOD)
    /\ [][\A r \in DOMAIN rooms \cap DOMAIN rooms' :
            /\ BagCardinality(rooms'[r].food) >= BagCardinality(rooms[r].food)
            /\ ~TickedRoom(r) => rooms'[r].food = rooms[r].food]_vars

\* a room whose player has grown by eating and that holds 100 Food again
C9_Witness ==
    /\ lastScan # <<>>
    /\ \E r \in DOMAIN rooms :
        /\ BagCardinality(rooms[r].food) = INITIAL_FOOD
        /\ \E i \in 1..Len(rooms[r].players) :
                rooms[r].players[i].length > INITIAL_LENGTH

\* the step handles joinRoom of socket s for room r
JoinStep(s, r) ==
    /\ Len(emitted') = 1
    /\ emitted'[1].event = "roomJoined"
    /\ emitted'[1].to = s
    /\ emitted'[1].roomId = r

\* C10 (as stated): when the last player of a room disconnects, the room
\* leaves the registry; and a joinRoom for an identifier whose room is gone,
\* or whose players have all disconnected, yields a fresh room: 100 Food,
\* tick counter 0 and the joining player, newly spawned, as its only player.
C10_FreshRoomAfterLastLeaves ==
    [][/\ \A s \in Sockets : \A r \in DOMAIN rooms :
            (conn[s] = "open" /\ conn'[s] = "closed"
                /\ PlayerIds(rooms[r].players) = {s})
            => r \notin DOMAIN rooms'
       /\ \A s \in Sockets : \A r \in RoomIds :
            (JoinStep(s, r)
                /\ (r \in DOMAIN rooms =>
                        /\ rooms[r].players # <<>>
                        /\ \A id \in PlayerIds(rooms[r].players) :
                                conn[id] = "closed"))
            => /\ BagCardinality(rooms'[r].food) = INITIAL_FOOD
               /\ rooms'[r].tickCount = 0
               /\ Len(rooms'[r].players) = 1
               /\ rooms'[r].players[1].id = s
               /\ FreshlySpawned(rooms'[r].players[1])]_vars

\* the positions in the messages just emitted of the gameState of room r
SnapshotAt(r) ==
    { n \in 1..Len(emitted) :
        emitted[n].event = "gameState" /\ emitted[n].to = r }

\* C11: a timer firing steps every registered room once: the registry keeps
\* its rooms, each tick counter goes up by exactly 1, and for each room
\* exactly one gameState is emitted, right after the room's 'dead' messages,
\* holding the room's players and Food as they are after the whole step
\* (one run of the loop body on the room as it was when the timer fired);
\* no other event emits a gameState or moves a tick counter.
C11_OneStepPerFiring ==
    [][/\ lastScan' # <<>> =>
            /\ DOMAIN rooms' = DOMAIN rooms
            /\ DOMAIN lastScan' = DOMAIN rooms
            /\ \E rnd \in TickRnd : \A r \in DOMAIN rooms :
                    rooms'[r] = TickRoom(r, rooms[r], rnd).room
            /\ \A r \in DOMAIN rooms :
                /\ rooms'[r].tickCount = rooms[r].tickCount + 1
                /\ Cardinality(SnapshotAt(r)') = 1
                /\ \A n \in SnapshotAt(r)' :
                    /\ emitted'[n].players = rooms'[r].players
                    /\ emitted'[n].food = rooms'[r].food
                    /\ PlayerIds(emitted'[n].players)
                            \cap Range(lastScan'[r].dead) = {}
                    /\ n > Len(lastScan'[r].dead)
                    /\ \A k \in 1..Len(lastScan'[r].dead) :
                            emitted'[n - Len(lastScan'[r].dead) + k - 1]
                                = [event |-> "dead", to |-> lastScan'[r].dead[k]]
       /\ lastScan' = <<>> =>
            /\ \A n \in 1..Len(emitted') : emitted'[n].event # "gameState"
            /\ \A r \in DOMAIN rooms \cap DOMAIN rooms' :
                    rooms'[r].tickCount = rooms[r].tickCount]_vars

\* a timer firing that stepped two rooms whose counters differ, one of
\* them losing a player in the step
C11_Witness ==
    /\ DOMAIN lastScan = {"1", "2"}
    /\ rooms["1"].tickCount # rooms["2"].tickCount
    /\ Cardinality(SnapshotAt("1")) = 1
    /\ Cardinality(SnapshotAt("2")) = 1
    /\ \E r \in DOMAIN lastScan : Len(lastScan[r].dead) > 0

\* the connection's room association names a room that holds its Player
Live(s) ==
    /\ sockRoom[s] \in DOMAIN rooms
    /\ s \in PlayerIds(rooms[sockRoom[s]].players)

\* the registry differs from the one before the step at most in the Player
\* of s in the room s is associated with, and there as `change` says
OnlyOwnPlayer(s, change(_, _)) ==
    /\ DOMAIN rooms' = DOMAIN rooms
    /\ \A r \in DOMAIN rooms :
        /\ rooms'[r].food = rooms[r].food
        /\ rooms'[r].tickCount = rooms[r].tickCount
        /\ Len(rooms'[r].players) = Len(rooms[r].players)
        /\ \A i \in 1..Len(rooms[r].players) :
                IF r = sockRoom[s] /\ rooms[r].players[i].id = s
                THEN change(rooms[r].players[i], rooms'[r].players[i])
                ELSE rooms'[r].players[i] = rooms[r].players[i]

AngleSet(p, q) == \E angle \in Angles : q = [p EXCEPT !.angle = angle]

BoostSet(p, q) == \E b \in BOOLEAN : q = [p EXCEPT !.isBoosting = b]

\* C12: an input or boost of a connection that has no room association,
\* or whose room is gone, or whose Player is not in that room, leaves the
\* whole registry as it is and emits nothing; an input (boost) of a
\* connection with a Player in its room writes the sent angle (flag) over
\* that Player's angle (flag), changes nothing else and emits nothing; and
\* a tick moves each player along the angle stored when the timer fires
\* and leaves the angle as it is.  (Input and boost steps emit nothing and
\* touch no connection; of such steps, one that changes the registry is no
\* input or boost of a connection without a Player in its room.)
C12_IntentOnlyOwnPlayer ==
    [][/\ (emitted' = <<>> /\ lastScan' = <<>> /\ conn' = conn) =>
          \/ rooms' = rooms
          \/ \A s \in Sockets :
                IF Live(s)
                THEN /\ Input(s) => OnlyOwnPlayer(s, AngleSet)
                     /\ Boost(s) => OnlyOwnPlayer(s, BoostSet)
                ELSE ~(Input(s) \/ Boost(s))
       /\ \A r \in DOMAIN lastScan' :
            \A i \in 1..Len(rooms[r].players) :
                LET p == rooms[r].players[i]
                    q == lastScan'[r].before[i]
                IN  /\ q.angle = p.angle
                    /\ \E v \in {SPEED, BOOST_SPEED} :
                        /\ q.x = Clamp(p.x + Cos(p.angle) * v)
                        /\ q.y = Clamp(p.y + Sin(p.angle) * v)]_vars

\* both connections have joined a room, the Player of one of them is no
\* longer in its room, and the last event was an input or a boost
C12_Witness ==
    /\ \A s \in Sockets : conn[s] = "open" /\ sockRoom[s] # NoRoom
    /\ \E s \in Sockets : sockRoom[s] \in DOMAIN rooms /\ ~Live(s)
    /\ emitted = <<>>
    /\ lastScan = <<>>
    /\ steps > 0

Abs(v) == IF v < 0 THEN -v ELSE v

\* C13: while the target of a drawn player stays the same (a frame of
\* update(), or a snapshot equal to the one before), the player stays
\* drawn, a coordinate that equals the target's keeps its value, and no
\* coordinate gets farther from the target's.
C13_TargetIsFixedPoint ==
    [][targetPlayers' = targetPlayers =>
        \A id \in DOMAIN clientPlayers \cap DOMAIN targetPlayers :
            LET p == clientPlayers[id]
                t == targetPlayers[id]
            IN  /\ id \in DOMAIN clientPlayers'
                /\ p.x = t.x => clientPlayers'[id].x = t.x
                /\ p.y = t.y => clientPlayers'[id].y = t.y
                /\ Abs(t.x - clientPlayers'[id].x) <= Abs(t.x - p.x)
                /\ Abs(t.y - clientPlayers'[id].y) <= Abs(t.y - p.y)]_vars

\* a frame has run (the camera has been set) with one player drawn at its
\* target and another on its way to its target
C13_Witness ==
    /\ DOMAIN targetPlayers = {"s1", "s2"}
    /\ DOMAIN clientPlayers = {"s1", "s2"}
    /\ camera = [x |-> clientPlayers[MyId].x, y |-> clientPlayers[MyId].y]
    /\ camera # [x |-> 0, y |-> 0]
    /\ camera # [x |-> targetPlayers[MyId].x, y |-> targetPlayers[MyId].y]
    /\ clientPlayers["s2"].x = targetPlayers["s2"].x
    /\ clientPlayers["s2"].y = targetPlayers["s2"].y

\* the boost charge of player i falls due in the step of `room`
Charged(room, i) ==
    /\ room.players[i].isBoosting
    /\ room.players[i].score > BOOST_MIN_SCORE
    /\ (room.tickCount + 1) % BOOST_PERIOD = 0

\* the residue player i drops in the step of `room`
Dropped(room, i, rnd) ==
    IF Charged(room, i)
    THEN LET p == room.players[i]
             tail == p.body[Len(p.body)]
         IN  Copies([x |-> tail.x + rnd.jx, y |-> tail.y + rnd.jy,
                     color |-> p.color], 1)
    ELSE EmptyBag

RECURSIVE AllDropped(_, _, _)
AllDropped(room, i, rnd) ==
    IF i > Len(room.players) THEN EmptyBag
    ELSE Dropped(room, i, rnd) (+) AllDropped(room, i + 1, rnd)

\* the Food of `food` within the pickup radius of the head of q
InReach(q, food) ==
    [f \in { g \in BagToSet(food) : Within(q.x, q.y, g.x, g.y, FOOD_RADIUS) }
        |-> food[f]]

\* The Food of the room when the first i players (`before`: the players as
\* moved in this step) have consumed.  phased: the residue of every player
\* is there before anyone consumes; otherwise a player's residue is there
\* from that player's turn on.
RECURSIVE FoodLeftBy(_, _, _, _, _)
FoodLeftBy(room, before, i, rnd, phased) ==
    IF i = 0
    THEN (IF phased THEN room.food (+) AllDropped(room, 1, rnd) ELSE room.food)
    ELSE LET seen == FoodLeftBy(room, before, i - 1, rnd, phased)
                        (+) (IF phased THEN EmptyBag ELSE Dropped(room, i, rnd))
             near == InReach(before[i], seen)
         IN  (seen (-) near) (+) Copies(rnd.food, BagCardinality(near))

\* the Food player i has in front of it when it consumes
SeenBy(room, before, i, rnd, phased) ==
    FoodLeftBy(room, before, i - 1, rnd, phased)
        (+) (IF phased THEN EmptyBag ELSE Dropped(room, i, rnd))

RECURSIVE DeadFood(_, _, _)
DeadFood(before, dead, k) ==
    IF k > Len(dead) THEN EmptyBag
    ELSE DeathFood(before[Idx(before, dead[k])], 1) (+) DeadFood(before, dead, k + 1)

\* A tick of each room: every player gains one unit of length per Food it
\* has in reach when it consumes, the Food of the room is what the
\* consumption of all players leaves plus the Food of the dead, detection
\* looks at the players after all movement and consumption, and the deaths
\* are resolved after detection.
TickOrder(phased) ==
    \A r \in DOMAIN lastScan' :
        \E rnd \in TickRnd :
            LET room == rooms[r]
                before == lastScan'[r].before
                dead == lastScan'[r].dead
            IN  /\ Len(before) = Len(room.players)
                /\ \A i \in 1..Len(before) :
                        before[i].length = room.players[i].length
                            + BagCardinality(
                                InReach(before[i],
                                        SeenBy(room, before, i, rnd, phased)))
                /\ rooms'[r].food =
                        FoodLeftBy(room, before, Len(before), rnd, phased)
                            (+) DeadFood(before, dead, 1)
                /\ Range(dead) = { before[i].id : i \in Colliding(before) }
                /\ rooms'[r].players =
                        SelectSeq(before, LAMBDA q : q.id \notin Range(dead))

\* C14 (as stated): in a tick all players are moved (boost charge and
\* residue included) before any player consumes, so every residue dropped
\* in the tick is in front of every player's consumption; consumption is
\* complete before detection, and detection before death resolution.
C14_MoveAllThenConsume == [][TickOrder(TRUE)]_vars

\* C14 (amended): in a tick each player in turn, in the order of the player
\* mapping, is moved (boost charge and residue included) and then consumes,
\* so a residue is in front of the consumption of the player that drops it
\* and of the players after it, not of the players before it; consumption
\* of all players is complete before detection, and detection before death
\* resolution.
C14_MoveAndConsumeInTurn == [][TickOrder(FALSE)]_vars

\* after a tick the residue of the second player lies within reach of the
\* head of the first player, which has not grown
C14_Witness ==
    /\ "1" \in DOMAIN lastScan
    /\ Len(lastScan["1"].before) = 2
    /\ rooms["1"].tickCount = DuoTicks + 1
    /\ LET first == lastScan["1"].before[1]
           second == lastScan["1"].before[2]
       IN  /\ first.length = INITIAL_LENGTH
           /\ second.score = INITIAL_SCORE - 1
           /\ \E f \in BagToSet(rooms["1"].food) :
                /\ f.color = second.color
                /\ Within(first.x, first.y, f.x, f.y, FOOD_RADIUS)

\* Of a player that has headed east ever since it created its room at
\* ScriptSpawn and has not reached the boundary: the ticks in which its
\* head advanced by BOOST_SPEED (its head is SPEED further east per tick,
\* once more per such tick), and the score it has been charged (it has
\* gained FOOD_SCORE per unit of length).
BoostedTicks(room, p) == (p.x - ScriptSpawn.x) \div SPEED - room.tickCount

ChargedPoints(p) ==
    INITIAL_SCORE + FOOD_SCORE * (p.length - INITIAL_LENGTH) - p.score

\* C15 (as stated): a player whose head has advanced at BOOST_SPEED in n
\* ticks since it spawned has been charged at least floor(n/5) points.
C15_BoostIsPaidFor ==
    \A r \in DOMAIN rooms : \A i \in 1..Len(rooms[r].players) :
        LET p == rooms[r].players[i]
        IN  (p.angle = 0 /\ p.x < HalfMap) =>
                ChargedPoints(p) >= BoostedTicks(rooms[r], p) \div BOOST_PERIOD

\* how many players of `room` are charged in its step
RECURSIVE ChargedCount(_, _)
ChargedCount(room, i) ==
    IF i > Len(room.players) THEN 0
    ELSE (IF Charged(room, i) THEN 1 ELSE 0) + ChargedCount(room, i + 1)

\* the offsets Math.random() * 10 - 5 can give on the integer grid
Jitter == (0 - JITTER_SPAN \div 2)..(JITTER_SPAN \div 2)

\* C16: in a tick a player whose flag is set and whose score is above 10
\* advances by BOOST_SPEED along its heading (held at the boundary), any
\* other player by SPEED.  If the player boosts and the room's tick counter
\* (as incremented for this tick) is divisible by 5, its score goes down by
\* exactly 1 and one Food of its colour is added at its tail as it was
\* before the move, plus jitter (it is in the room after the tick unless a
\* head is within pickup reach of it); otherwise nothing is charged.  The
\* Food of a room grows in a tick by one per charged player (and by the
\* Food of the dead).  A score otherwise changes only by 10 per pickup.
C16_BoostStep ==
    [][\A r \in DOMAIN lastScan' :
        LET room == rooms[r]
            before == lastScan'[r].before
        IN  /\ Len(before) = Len(room.players)
            /\ BagCardinality(rooms'[r].food) =
                    BagCardinality(room.food) + ChargedCount(room, 1)
                        + BagCardinality(DeadFood(before, lastScan'[r].dead, 1))
            /\ \A i \in 1..Len(before) :
                LET p == room.players[i]
                    q == before[i]
                    boosting == p.isBoosting /\ p.score > BOOST_MIN_SCORE
                    speed == IF boosting THEN BOOST_SPEED ELSE SPEED
                    tail == p.body[Len(p.body)]
                IN  /\ q.x = Clamp(p.x + Cos(p.angle) * speed)
                    /\ q.y = Clamp(p.y + Sin(p.angle) * speed)
                    /\ q.score = p.score
                                    - (IF Charged(room, i) THEN 1 ELSE 0)
                                    + FOOD_SCORE * (q.length - p.length)
                    /\ Charged(room, i) =>
                        \E jx, jy \in Jitter :
                            LET residue == [x |-> tail.x + jx, y |-> tail.y + jy,
                                            color |-> p.color]
                            IN  \/ CopiesIn(residue, rooms'[r].food)
                                       > CopiesIn(residue, room.food)
                                \/ \E k \in 1..Len(before) :
                                       Within(before[k].x, before[k].y,
                                              residue.x, residue.y, FOOD_RADIUS)]_vars

\* a single player that joined a new room and boosted through its first
\* five ticks: score 99 and one Food more than the room was seeded with
C16_Witness ==
    /\ lastScan # <<>>
    /\ \E r \in DOMAIN rooms :
        /\ rooms[r].tickCount = BOOST_PERIOD
        /\ Len(rooms[r].players) = 1
        /\ rooms[r].players[1].isBoosting
        /\ rooms[r].players[1].score = INITIAL_SCORE - 1
        /\ rooms[r].players[1].x = ScriptSpawn.x + BOOST_PERIOD * BOOST_SPEED
        /\ BagCardinality(rooms[r].food) = INITIAL_FOOD + 1

\* the positions (counted from 1) of the segments of q whose index counted
\* from 0 is even
EvenIndexed(q) == { k \in 1..Len(q.body) : k % 2 = 1 }

\* one Food of the colour of q at each of those segments
EvenSegments(q) ==
    [f \in { [x |-> q.body[k].x, y |-> q.body[k].y, color |-> q.color] :
                k \in EvenIndexed(q) }
        |-> Cardinality({ k \in EvenIndexed(q) :
                            q.body[k].x = f.x /\ q.body[k].y = f.y })]

RECURSIVE FoodOfDead(_, _, _)
FoodOfDead(before, dead, k) ==
    IF k > Len(dead) THEN EmptyBag
    ELSE EvenSegments(before[Idx(before, dead[k])])
            (+) FoodOfDead(before, dead, k + 1)

\* C17: when a tick resolves the deaths of a room, each dead player with n
\* segments adds ceil(n/2) Food, one of its colour at each of its segments
\* of even index (0 is the head), nothing else is added to or taken from
\* the Food that movement and consumption left, and every player that is
\* not dead stays in the room exactly as it was after movement.
C17_DeathFood ==
    [][\A r \in DOMAIN lastScan' :
        LET room == rooms[r]
            before == lastScan'[r].before
            dead == lastScan'[r].dead
        IN  /\ \A k \in 1..Len(dead) :
                    LET q == before[Idx(before, dead[k])]
                    IN  BagCardinality(EvenSegments(q)) = (Len(q.body) + 1) \div 2
            /\ \E rnd \in TickRnd :
                    rooms'[r].food =
                        FoodLeftBy(room, before, Len(before), rnd, FALSE)
                            (+) FoodOfDead(before, dead, 1)
            /\ rooms'[r].players =
                    SelectSeq(before, LAMBDA q : q.id \notin Range(dead))]_vars

\* a tick in which one of two players died, its head and two more of its
\* five segments now Food of its colour, and the other player stayed
C17_Witness ==
    \E r \in DOMAIN lastScan :
        /\ Len(lastScan[r].dead) = 1
        /\ Len(rooms[r].players) = 1
        /\ LET q == lastScan[r].before[Idx(lastScan[r].before, lastScan[r].dead[1])]
           IN  /\ Len(q.body) = INITIAL_LENGTH
               /\ BagCardinality(rooms[r].food) = INITIAL_FOOD + 3
               /\ BagIn([x |-> q.x, y |-> q.y, color |-> q.color], rooms[r].food)

\* C18: in a tick every player consumes every Food that is within 20 of its
\* head when its food loop runs: with k such Food its target length goes up
\* by exactly k and its score by exactly 10k (less the boost charge), all k
\* are taken out of the room and k replacements are put in; what one player
\* consumed does not keep the players after it from consuming the Food
\* that is in their reach.
C18_AllPickupsHonored ==
    [][\A r \in DOMAIN lastScan' :
        \E rnd \in TickRnd :
            LET room == rooms[r]
                before == lastScan'[r].before
            IN  \A i \in 1..Len(before) :
                    LET seen == SeenBy(room, before, i, rnd, FALSE)
                        near == InReach(before[i], seen)
                        k == BagCardinality(near)
                        left == FoodLeftBy(room, before, i, rnd, FALSE)
                    IN  /\ before[i].length = room.players[i].length + k
                        /\ before[i].score =
                                room.players[i].score + FOOD_SCORE * k
                                    - (IF Charged(room, i) THEN 1 ELSE 0)
                        /\ BagCardinality(left) = BagCardinality(seen)
                        /\ \A f \in BagToSet(near) :
                                CopiesIn(f, left)
                                    = (IF f = rnd.food THEN k ELSE 0)
                        /\ i = Len(before) =>
                                rooms'[r].food =
                                    left (+) DeadFood(before, lastScan'[r].dead, 1)]_vars

\* a first tick of a room in which both of its players consumed two Food
C18_Witness ==
    \E r \in DOMAIN lastScan :
        /\ rooms[r].tickCount = 1
        /\ Len(lastScan[r].before) = 2
        /\ \A i \in 1..2 :
            /\ lastScan[r].before[i].length = INITIAL_LENGTH + 2
            /\ lastScan[r].before[i].score = INITIAL_SCORE + 2 * FOOD_SCORE

\* C19 (as stated): every Food of every room lies inside the arena.
C19_FoodInsideArena ==
    \A r \in DOMAIN rooms : \A f \in BagToSet(rooms[r].food) :
        InArena(f.x) /\ InArena(f.y)

\* C20 (as stated): a connection has a Player in at most one room, and only
\* in the room recorded as its association.
C20_OnePlayerPerConnection ==
    \A s \in Sockets : \A r \in DOMAIN rooms :
        s \in PlayerIds(rooms[r].players) => sockRoom[s] = r

====
